---- MODULE Spec2Model ----
(***************************************************************************)
(* Model of the mini-rag-agent retrieval-and-routing core:                 *)
(*   app/embed.py  LocalVectorStore (_load, rebuild, _persist, search)     *)
(*   app/rag.py    RAGPipeline (set_mode, reload, answer and its helpers)  *)
(*   app/main.py   the /ingest handler and the module-level pipeline       *)
(*                                                                         *)
(* Strings are sequences of segments [s |-> tag, n |-> length]; a segment  *)
(* tagged "ws" is whitespace, every other segment starts and ends with a   *)
(* non-blank character.  Scores are cosines in hundredths: embedding       *)
(* vectors have integer coordinates and norm 10, so a dot product is       *)
(* 100 * cosine.  None is encoded by a flag next to the value.             *)
(***************************************************************************)
EXTENDS Integers, Sequences, FiniteSets, TLC

VARIABLES embFile, metaFile, embeddings, meta, cliPending,
          mode, allow_general_chat, prev, last, found,
          api_key, completed, formatted

\* what the completion provider and the context assembly are observed through
aux == <<api_key, completed, formatted>>

vars == <<embFile, metaFile, embeddings, meta, cliPending,
          mode, allow_general_chat, prev, last, found, aux>>

\* ------------------------------------------------------------- bounds
MaxChunks == 2
MaxTopK == 2
MaxSearchChunks == 3
\* the longest run of full-size chunks, and of shorter chunks, in a result list
MaxLongRun == 10
MaxShortRun == 2
\* the most chunks of an index the builder is interrupted on
MaxTornChunks == 1

\* ------------------------------------------------------------- settings
MAX_CONTEXT_CHARS == 10000
RETRIEVAL_CONFIDENCE_THRESHOLD == 12
ExtractChars == 800
FollowUpMinLen == 3
FollowUpMaxLen == 180

\* ------------------------------------------------------------- text
Min(a, b) == IF a <= b THEN a ELSE b
Max(a, b) == IF a >= b THEN a ELSE b

Seg(tag, len) == [s |-> tag, n |-> len]
Sep == Seg("ws", 2)

RECURSIVE StrLen(_)
StrLen(t) == IF t = <<>> THEN 0 ELSE Head(t).n + StrLen(Tail(t))

RECURSIVE LStrip(_)
LStrip(t) ==
    IF t = <<>> THEN <<>>
    ELSE IF Head(t).s = "ws" \/ Head(t).n = 0 THEN LStrip(Tail(t))
    ELSE t

RECURSIVE RStrip(_)
RStrip(t) ==
    IF t = <<>> THEN <<>>
    ELSE IF t[Len(t)].s = "ws" \/ t[Len(t)].n = 0 THEN RStrip(SubSeq(t, 1, Len(t) - 1))
    ELSE t

Strip(t) == RStrip(LStrip(t))

\* t[:k] for k >= 0
RECURSIVE Prefix(_, _)
Prefix(t, k) ==
    IF t = <<>> \/ k <= 0 THEN <<>>
    ELSE IF Head(t).n <= k THEN <<Head(t)>> \o Prefix(Tail(t), k - Head(t).n)
    ELSE <<Seg(Head(t).s, k)>>

\* s[:k] of a Python list, k of either sign
Take(s, k) ==
    IF k >= 0 THEN SubSeq(s, 1, Min(k, Len(s)))
    ELSE SubSeq(s, 1, Max(Len(s) + k, 0))

Reverse(s) == [i \in 1..Len(s) |-> s[Len(s) + 1 - i]]

\* a completion result: None, or a text
None == [none |-> TRUE, text |-> <<>>]
Some(t) == [none |-> FALSE, text |-> t]

\* Python's `x or default` on an optional string
OrElse(c, default) == IF c.none \/ StrLen(c.text) = 0 THEN default ELSE c.text

\* ------------------------------------------------------------- literals
Welcome == Seg("welcome", 284)
Switched(m) == Seg("switched:" \o m, 27)
GenericFollowUp == Seg("generic_follow_up", 88)
ChatStatic == Seg("chat_static", 34)
IndexEmptyMsg == Seg("index_empty", 130)
NoDocsBase == Seg("no_docs_base", 132)
FallbackStatic == Seg("fallback_static", 60)
Invite == Seg("invite", 40)
Choice == Seg("choice", 155)
AutoStatic == Seg("auto_static", 54)
NoContext == Seg("no_context", 17)
Ellipsis == Seg("...", 3)
Delim == Seg("delim", 7)

\* ------------------------------------------------------------- loader
NoPage == 0

ChunkA == [path |-> "data/notes.md", page |-> NoPage, text |-> <<Seg("t1", 5)>>]
ChunkB == [path |-> "data/report.pdf", page |-> 1, text |-> <<Seg("t2", 801)>>]
ChunkC == [path |-> "data/report.pdf", page |-> 2, text |-> <<Seg("t3", 900)>>]
Pool == {ChunkA, ChunkB}
TornPool == {ChunkA}
SearchPool == {ChunkA, ChunkB, ChunkC}

SeqsUpTo(S, n) == UNION {[1..k -> S] : k \in 0..n}

\* what load_documents can return for some content of the source directory
load_documents(pool, n) == SeqsUpTo(pool, n)

\* ------------------------------------------------------------- embedding model
Vec(x, y, z) == <<x, y, z>>
Dot(a, b) == a[1] * b[1] + a[2] * b[2] + a[3] * b[3]

\* SentenceTransformer.encode(text, normalize_embeddings=True) on the chunk texts
EncodeText(text) ==
    IF text = ChunkA.text THEN Vec(10, 0, 0)
    ELSE IF text = ChunkB.text THEN Vec(0, 10, 0)
    ELSE Vec(0, 0, 10)

Encode(docs) == [i \in 1..Len(docs) |-> EncodeText(docs[i].text)]

\* the normalized encodings a query can have
QueryVecs == {Vec(10, 0, 0), Vec(6, 8, 0), Vec(0, 0, 10)}

\* ------------------------------------------------------------- vector store
File(data) == [exists |-> TRUE, data |-> data]
Absent == [exists |-> FALSE, data |-> <<>>]

\* LocalVectorStore._load: the pair (embeddings, meta) read from the artifacts
_load(ef, mf) ==
    IF ef.exists /\ mf.exists
    THEN [embeddings |-> ef.data, meta |-> mf.data]
    ELSE [embeddings |-> <<>>, meta |-> <<>>]

\* LocalVectorStore.rebuild: the in-memory pair set from the loader's output
rebuild(docs) ==
    IF docs = <<>>
    THEN [embeddings |-> <<>>, meta |-> <<>>]
    ELSE [embeddings |-> Encode(docs), meta |-> docs]

Perms(n) ==
    {p \in [1..n -> 1..n] : \A i, j \in 1..n : i # j => p[i] # p[j]}

\* the index orders np.argsort (default kind, not stable) may return
Argsorts(sims) ==
    {p \in Perms(Len(sims)) :
        \A i, j \in 1..Len(sims) : i < j => sims[p[i]] <= sims[p[j]]}

Sims(emb, qv) == [i \in 1..Len(emb) |-> Dot(qv, emb[i])]

WithScore(m, sc) ==
    [path |-> m.path, page |-> m.page, text |-> m.text, score |-> sc]

search_ascending(emb, met, qv, top_k, order) ==
    IF Len(emb) = 0 THEN [ok |-> TRUE, docs |-> <<>>]
    ELSE LET sims == Sims(emb, qv)
             top_idxs == Take(order, top_k)
         IN IF \E j \in 1..Len(top_idxs) : top_idxs[j] > Len(met)
            THEN [ok |-> FALSE, docs |-> <<>>]
            ELSE [ok |-> TRUE,
                  docs |-> [j \in 1..Len(top_idxs) |->
                              WithScore(met[top_idxs[j]], sims[top_idxs[j]])]]

\* LocalVectorStore.search; order is the result of np.argsort(sims)
search(emb, met, qv, top_k, order) ==
    IF Len(emb) = 0 THEN [ok |-> TRUE, docs |-> <<>>]
    ELSE LET sims == Sims(emb, qv)
             top_idxs == Take(Reverse(order), top_k)
         IN IF \E j \in 1..Len(top_idxs) : top_idxs[j] > Len(met)
            THEN [ok |-> FALSE, docs |-> <<>>]      \* IndexError on self.meta[i]
            ELSE [ok |-> TRUE,
                  docs |-> [j \in 1..Len(top_idxs) |->
                              WithScore(met[top_idxs[j]], sims[top_idxs[j]])]]

\* ------------------------------------------------------------- queries
Lower(w) ==
    CASE w = "/MODE" -> "/mode"
      [] w = "Docs" -> "docs"
      [] w = "Hello" -> "hello"
      [] w = "Report.PDF" -> "report.pdf"
      [] OTHER -> w

LowerAll(q) == [i \in 1..Len(q) |-> Lower(q[i])]

\* SMALLTALK_PATTERNS, as whole messages of lower-cased words
SmalltalkPhrases ==
    {<<"hi">>, <<"hello">>, <<"hey">>, <<"sup">>, <<"yo">>, <<"hola">>,
     <<"namaste">>, <<"hii">>, <<"good", "morning">>, <<"good", "afternoon">>,
     <<"good", "evening">>, <<"how", "are", "you">>, <<"how", "r", "u">>,
     <<"how", "are", "u">>, <<"how", "r", "you">>, <<"who", "are", "you">>,
     <<"help">>, <<"what", "can", "you", "do">>, <<"thanks">>,
     <<"thank", "you">>}

_is_smalltalk_cased(q) == q \in SmalltalkPhrases

_is_smalltalk(q) == LowerAll(q) \in SmalltalkPhrases

\* FILE_HINT_PATTERN: the words of the vocabulary the pattern finds a match in
FileHintWords == {"report.pdf", "notes.md", "readme.txt", "p12", "file", "document"}

HasFileHint(q) == \E i \in 1..Len(q) : Lower(q[i]) \in FileHintWords

\* the explicit_docs keywords of _wants_docs
ExplicitDocs(q) ==
    \/ \E i \in 1..Len(q) : Lower(q[i]) \in {"cite", "citation", "source:"}
    \/ \E i \in 1..(Len(q) - 1) : Lower(q[i]) = "according" /\ Lower(q[i + 1]) = "to"

_wants_docs_weak(q, best_score) ==
    LET explicit_docs == ExplicitDocs(q)
        has_file_hints == HasFileHint(q)
        strong_retrieval == best_score <= RETRIEVAL_CONFIDENCE_THRESHOLD
    IN explicit_docs \/ has_file_hints \/ strong_retrieval

_wants_docs_nohint(q, best_score) ==
    LET explicit_docs == ExplicitDocs(q)
        strong_retrieval == best_score >= RETRIEVAL_CONFIDENCE_THRESHOLD
    IN explicit_docs \/ strong_retrieval

_wants_docs(q, best_score) ==
    LET explicit_docs == ExplicitDocs(q)
        has_file_hints == HasFileHint(q)
        strong_retrieval == best_score >= RETRIEVAL_CONFIDENCE_THRESHOLD
    IN explicit_docs \/ has_file_hints \/ strong_retrieval

Modes == {"auto", "docs", "chat"}

set_mode_ignored(cur, m) == cur

\* RAGPipeline.set_mode
set_mode(cur, m) == IF m \in Modes THEN m ELSE cur

\* RAGPipeline._maybe_interpret_mode_switch: <<handled, mode afterwards>>
_maybe_interpret_mode_switch(cur, q) ==
    IF Len(q) = 2 /\ Lower(q[1]) = "/mode" /\ Lower(q[2]) \in Modes
    THEN [handled |-> TRUE, mode |-> set_mode(cur, Lower(q[2]))]
    ELSE [handled |-> FALSE, mode |-> cur]

Queries ==
    {<<"/mode", "docs">>, <<"/MODE", "Docs">>, <<"/mode", "chat">>, <<"/mode", "auto">>,
     <<>>, <<"Hello">>,
     <<"how", "to", "deploy">>,
     <<"what", "does", "Report.PDF", "say">>,
     <<"cite", "the", "steps">>}

\* ------------------------------------------------------------- pipeline helpers
Basename(path) ==
    IF path = "data/notes.md" THEN Seg("notes.md", 8) ELSE Seg("report.pdf", 10)

\* one "[name:pPAGE]\nchunk" block of _format_context
Block(d) ==
    LET page_tag == IF d.page # NoPage THEN <<Seg(":p", 3)>> ELSE <<>>
    IN <<Seg("[", 1), Basename(d.path)>> \o page_tag \o <<Seg("]\n", 2)>> \o Strip(d.text)

\* the blocks _format_context keeps of docs[i..], total being the length so far
RECURSIVE ContextParts(_, _, _, _)
ContextParts(docs, i, total, nparts) ==
    IF i > Len(docs) THEN <<>>
    ELSE IF StrLen(Strip(docs[i].text)) = 0
         THEN ContextParts(docs, i + 1, total, nparts)
    ELSE LET block == Block(docs[i])
         IN IF total + StrLen(block) > MAX_CONTEXT_CHARS /\ nparts > 0
            THEN <<>>
            ELSE <<block>> \o ContextParts(docs, i + 1, total + StrLen(block), nparts + 1)

RECURSIVE Join(_, _)
Join(parts, delim) ==
    IF parts = <<>> THEN <<>>
    ELSE IF Len(parts) = 1 THEN parts[1]
    ELSE parts[1] \o <<delim>> \o Join(Tail(parts), delim)

\* RAGPipeline._format_context
_format_context(docs) == Join(ContextParts(docs, 1, 0, 0), Delim)

Call(prompt, out) == [prompt |-> prompt, out |-> out]

_append_follow_up_strict(assistant_answer, nxt) ==
    IF ~nxt.none /\ StrLen(nxt.text) > 0
       /\ FollowUpMinLen <= StrLen(Strip(nxt.text))
       /\ StrLen(Strip(nxt.text)) < FollowUpMaxLen
    THEN assistant_answer \o <<Sep>> \o Strip(nxt.text)
    ELSE assistant_answer \o <<Sep, GenericFollowUp>>

\* RAGPipeline._append_follow_up; nxt is what llm.complete returns for the prompt
_append_follow_up(assistant_answer, nxt) ==
    IF ~nxt.none /\ StrLen(nxt.text) > 0
       /\ FollowUpMinLen <= StrLen(Strip(nxt.text))
       /\ StrLen(Strip(nxt.text)) <= FollowUpMaxLen
    THEN assistant_answer \o <<Sep>> \o Strip(nxt.text)
    ELSE assistant_answer \o <<Sep, GenericFollowUp>>

\* what a call left behind: the operation, its arguments and the state it found
\* (query, top_k, mode0, rows0, and prev0: the request answered before it if
\* that was a mode-switch command, else the empty message), and what it
\* returned or changed
Result(kind, q, top_k, m0, rows0, p0, m, branch, ans, sources, docs, searches, llm) ==
    [kind |-> kind, query |-> q, top_k |-> top_k, mode0 |-> m0, rows0 |-> rows0,
     prev0 |-> p0, mode |-> m, branch |-> branch, answer |-> ans,
     sources |-> sources, docs |-> docs, searches |-> searches, llm |-> llm]

Blank(kind, m0, rows0, p0, m) ==
    Result(kind, <<>>, 0, m0, rows0, p0, m, "none", <<>>, <<>>, <<>>, 0, <<>>)

NoResult == Blank("none", "auto", 0, <<>>, "auto")

ForcedChat_never(m0, allow) == FALSE

\* the "forced general chat" test of answer
ForcedChat(m0, allow) == m0 = "chat" /\ allow

\* the "AUTO routing" test of answer
AutoGate(m0, allow, q, best_score) ==
    m0 = "auto" /\ allow /\ ~_wants_docs(q, best_score)

extractive_uncut(text) == IF StrLen(text) = 0 THEN <<NoContext>> ELSE text

\* the extractive fallback of answer, from the best chunk's text
extractive(text) ==
    LET cut == Prefix(text, ExtractChars)
                 \o (IF StrLen(text) > ExtractChars THEN <<Ellipsis>> ELSE <<>>)
    IN IF StrLen(cut) = 0 THEN <<NoContext>> ELSE cut

\* RAGPipeline.answer.  c1 and c2 are what the first and the second call of
\* llm.complete return if they are made; order is what np.argsort returns.
answer(m0, allow, emb, met, p0, query, top_k, qv, order, c1, c2) ==
    LET sw == _maybe_interpret_mode_switch(m0, query)
        clean_q == query
        R(branch, ans, sources, docs, searches, llm) ==
            Result("answer", query, top_k, m0, Len(emb), p0, sw.mode, branch, ans,
                   sources, docs, searches, llm)
        found0 == search(emb, met, qv, top_k, order)
        docs == found0.docs
        best_score == IF docs # <<>> THEN docs[1].score ELSE 0
        context == _format_context(docs)
    IN
    IF sw.handled
    THEN R("command", <<Switched(sw.mode), Welcome>>, <<>>, <<>>, 0, <<>>)
    ELSE IF clean_q = <<>> \/ _is_smalltalk(clean_q)
    THEN LET guide == OrElse(c1, <<>>)
         IN R("smalltalk", Strip(Strip(guide) \o <<Sep, Welcome>>), <<>>, <<>>, 0,
              <<Call("SMALLTALK", c1)>>)
    ELSE IF ForcedChat(m0, allow)
    THEN LET out == OrElse(c1, <<ChatStatic>>)
         IN R("forced_chat", _append_follow_up(Strip(out), c2), <<>>, <<>>, 0,
              <<Call("GENERAL_CHAT", c1), Call("FOLLOW_UP", c2)>>)
    ELSE IF ~found0.ok
    THEN R("raised", <<>>, <<>>, <<>>, 1, <<>>)
    ELSE IF StrLen(Strip(context)) = 0
    THEN IF m0 = "docs"
         THEN R("empty_docs", <<IndexEmptyMsg>>, <<>>, docs, 1, <<>>)
         ELSE IF allow
         THEN LET out == OrElse(c1, <<FallbackStatic>>)
              IN R("empty_chat",
                   <<NoDocsBase, Sep>> \o Strip(out) \o <<Sep, Invite>>,
                   <<>>, docs, 1, <<Call("GENERAL_CHAT", c1)>>)
         ELSE R("empty_noallow", <<IndexEmptyMsg>>, <<>>, docs, 1, <<>>)
    ELSE IF AutoGate(m0, allow, clean_q, best_score)
    THEN LET out == Strip(OrElse(c1, <<AutoStatic>>))
         IN R("ambiguity", _append_follow_up(out \o <<Sep, Choice>>, c2), <<>>, docs, 1,
              <<Call("GENERAL_CHAT", c1), Call("FOLLOW_UP", c2)>>)
    ELSE IF c1.none
    THEN R("extractive", extractive(docs[1].text), docs, docs, 1, <<Call("QA", c1)>>)
    ELSE R("grounded", _append_follow_up(Strip(c1.text), c2), docs, docs, 1,
           <<Call("QA", c1), Call("FOLLOW_UP", c2)>>)

\* ------------------------------------------------------------- inputs
TopKs == (0 - 1)..MaxTopK

LlmText == Seg("llm", 40)

\* what llm.complete can return for the first prompt of a request
Completions ==
    {None, Some(<<>>), Some(<<Seg("ws", 1)>>), Some(<<Seg("ws", 1), LlmText, Seg("ws", 1)>>)}

\* what llm.complete can return for the follow-up prompt
FollowUps ==
    {None, Some(<<>>), Some(<<Seg("q", 2)>>), Some(<<Seg("ws", 1), Seg("q", 3)>>),
     Some(<<Seg("ws", 1), Seg("q", 180), Seg("ws", 1)>>), Some(<<Seg("q", 181)>>)}

\* ------------------------------------------------------------- state
Idle == [busy |-> FALSE, docs |-> <<>>]

NoFound == [searched |-> FALSE, qv |-> Vec(0, 0, 0), top_k |-> 0, sims |-> <<>>,
            ok |-> TRUE, docs |-> <<>>]

\* LocalVectorStore._persist: the two artifacts, written one after the other
_persist(emb, met) == [embFile |-> File(emb), metaFile |-> File(met)]

\* RAGPipeline.__init__
__init__(ef, mf, allow) ==
    [store |-> _load(ef, mf), allow_general_chat |-> allow, mode |-> "auto"]

reload_resets_mode(m, ef, mf) == [store |-> _load(ef, mf), mode |-> "auto"]

\* RAGPipeline.reload
reload(m, ef, mf) == [store |-> _load(ef, mf), mode |-> m]

\* ------------------------------------------------------------- completion provider
GroqKey == Seg("groq_key", 56)
OpenAIKey == Seg("openai_key", 51)

\* what os.getenv("GROQ_API_KEY", "") and os.getenv("OPENAI_API_KEY", "") can be
GroqEnv == {<<>>, <<Seg("ws", 1)>>, <<Seg("ws", 1), GroqKey, Seg("ws", 1)>>}
OpenAIEnv == {<<>>, <<Seg("ws", 1)>>, <<OpenAIKey>>}

\* LLMClient.__init__: api_key = groq_key or openai_key, both stripped
LLMClient_init(groq, openai) ==
    IF StrLen(Strip(groq)) > 0 THEN Strip(groq) ELSE Strip(openai)

Prompts == {"SMALLTALK", "GENERAL_CHAT", "QA", "FOLLOW_UP"}

\* the response body: whether it parses as JSON, and what
\* data["choices"][0]["message"]["content"] finds on the way
Body(json, has_choices, n_choices, has_message, has_content, content) ==
    [json |-> json, has_choices |-> has_choices, n_choices |-> n_choices,
     has_message |-> has_message, has_content |-> has_content, content |-> content]

Bodies ==
    {Body(FALSE, FALSE, 0, FALSE, FALSE, None),
     Body(TRUE, FALSE, 0, FALSE, FALSE, None),
     Body(TRUE, TRUE, 0, FALSE, FALSE, None),
     Body(TRUE, TRUE, 1, FALSE, FALSE, None),
     Body(TRUE, TRUE, 1, TRUE, FALSE, None)}
    \cup {Body(TRUE, TRUE, 1, TRUE, TRUE, c) : c \in Completions}

\* status codes a response can carry; requests hands back a 3xx response that
\* names no Location as it is, and raise_for_status lets it pass
Statuses == {200, 304, 401, 429, 500}

\* what requests.post does: it raises, or returns a response
Responses ==
    {[kind |-> k, status |-> 0, body |-> Body(FALSE, FALSE, 0, FALSE, FALSE, None)] :
        k \in {"connection_error", "timeout"}}
    \cup {[kind |-> "http", status |-> st, body |-> b] : st \in Statuses, b \in Bodies}

Raised == [raised |-> TRUE, value |-> None]
Returned(v) == [raised |-> FALSE, value |-> v]

\* the try block of LLMClient.complete
Attempt(resp) ==
    IF resp.kind # "http" THEN Raised                               \* requests.post
    ELSE IF resp.status >= 400 /\ resp.status < 600 THEN Raised      \* raise_for_status
    ELSE IF ~resp.body.json THEN Raised                              \* resp.json()
    ELSE IF ~resp.body.has_choices THEN Raised                       \* KeyError
    ELSE IF resp.body.n_choices = 0 THEN Raised                      \* IndexError
    ELSE IF ~resp.body.has_message THEN Raised                       \* KeyError
    ELSE IF ~resp.body.has_content THEN Raised                       \* KeyError
    ELSE Returned(resp.body.content)

Outcome(requests, raised, result) ==
    [requests |-> requests, raised |-> raised, result |-> result]

complete_without_key_test(key, resp) ==
    LET a == Attempt(resp)
    IN IF a.raised THEN Outcome(1, FALSE, None) ELSE Outcome(1, FALSE, a.value)

\* LLMClient.complete: the requests sent, whether it raised, what it returned
complete(key, resp) ==
    IF StrLen(key) = 0 THEN Outcome(0, FALSE, None)
    ELSE LET a == Attempt(resp)
         IN IF a.raised
            THEN Outcome(1, FALSE, None)                             \* except Exception
            ELSE Outcome(1, FALSE, a.value)

NoCall == [called |-> FALSE, prompt |-> "", resp |-> CHOOSE r \in Responses : TRUE,
           out |-> Outcome(0, FALSE, None)]

\* ------------------------------------------------------------- context assembly
NoFormat == [done |-> FALSE, docs |-> <<>>, parts |-> <<>>, context |-> <<>>]

Run(d, n) == [i \in 1..n |-> d]

\* the scores of a result list, in hundredths, best first
Ranked(chunks) == [i \in 1..Len(chunks) |-> WithScore(chunks[i], 100 - 5 * i)]

\* what retrieve returns for a large top_k over an index holding one long PDF
\* page (cut into 900-character pieces), its last piece and a short note
ResultLists ==
    {Ranked(Run(ChunkC, nC) \o Run(ChunkB, nB) \o Run(ChunkA, nA)) :
        nC \in 0..MaxLongRun, nB \in 0..MaxShortRun, nA \in 0..MaxShortRun}
    \cup {Ranked(Run(ChunkA, nA) \o Run(ChunkB, nB) \o Run(ChunkC, nC)) :
        nC \in 0..MaxLongRun, nB \in 0..MaxShortRun, nA \in 0..MaxShortRun}

Init ==
    /\ api_key = LLMClient_init(<<Seg("ws", 1), GroqKey, Seg("ws", 1)>>, <<>>)
    /\ completed = NoCall
    /\ formatted = NoFormat
    /\ embFile = Absent
    /\ metaFile = Absent
    /\ cliPending = Idle
    /\ \E a \in BOOLEAN :
         LET p == __init__(embFile, metaFile, a)
         IN /\ embeddings = p.store.embeddings
            /\ meta = p.store.meta
            /\ mode = p.mode
            /\ allow_general_chat = p.allow_general_chat
    /\ prev = <<>>
    /\ last = Blank("construct", "auto", 0, <<>>, "auto")
    /\ found = NoFound

\* a request is handled to its end before the next one is taken
InFlight == last.kind = "answer" \/ found.searched

\* the server process starts: rag = RAGPipeline(index_dir=INDEX_DIR)
Construct ==
    \E a \in BOOLEAN :
      LET p == __init__(embFile, metaFile, a)
      IN /\ ~InFlight
         /\ embeddings' = p.store.embeddings
         /\ meta' = p.store.meta
         /\ mode' = p.mode
         /\ allow_general_chat' = p.allow_general_chat
         /\ prev' = <<>>
         /\ last' = Blank("construct", "auto", 0, <<>>, p.mode)
         /\ found' = NoFound
         /\ UNCHANGED <<aux, embFile, metaFile, cliPending>>

\* the body of POST /ingest: build_index_cli(DATA_DIR, INDEX_DIR) persists the
\* rebuilt index, then rag.reload(INDEX_DIR) replaces the pipeline's store
ingest(m, docs) ==
    LET built == rebuild(docs)
        files == _persist(built.embeddings, built.meta)
        p == reload(m, files.embFile, files.metaFile)
    IN [embFile |-> files.embFile, metaFile |-> files.metaFile,
        store |-> p.store, mode |-> p.mode]

\* POST /ingest
Ingest ==
    \E docs \in load_documents(Pool, MaxChunks) :
      /\ ~InFlight
      /\ embFile' = ingest(mode, docs).embFile
      /\ metaFile' = ingest(mode, docs).metaFile
      /\ embeddings' = ingest(mode, docs).store.embeddings
      /\ meta' = ingest(mode, docs).store.meta
      /\ mode' = ingest(mode, docs).mode
      /\ last' = Blank("reload", mode, 0, <<>>, ingest(mode, docs).mode)
      /\ found' = NoFound
      /\ UNCHANGED <<aux, allow_general_chat, cliPending, prev>>

\* llm.complete returns a value only for a call that is made: the outcomes of
\* the k-th call of a request whose run so far made n calls
Outcomes(n, k, S) == IF n >= k THEN S ELSE {None}

\* POST /ask, /_ask_htmx, /_chat_htmx: rag.answer(query, top_k)
Answer ==
    /\ last.kind \in {"none", "construct"}
    /\ \E query \in Queries, top_k \in TopKs, qv \in QueryVecs :
         \E order \in Argsorts(Sims(embeddings, qv)) :
           LET run(c1, c2) == answer(mode, allow_general_chat, embeddings, meta, prev,
                                     query, top_k, qv, order, c1, c2)
           IN \E c1 \in Outcomes(Len(run(None, None).llm), 1, Completions) :
                \E c2 \in Outcomes(Len(run(c1, None).llm), 2, FollowUps) :
                  /\ last' = run(c1, c2)
                  /\ mode' = run(c1, c2).mode
                  /\ prev' = IF run(c1, c2).branch = "command" THEN query ELSE <<>>
    /\ UNCHANGED <<aux, embFile, metaFile, embeddings, meta, cliPending,
                   allow_general_chat, found>>

\* the handler returns the response: JSONResponse / HTMLResponse of (answer, sources)
Respond ==
    /\ last.kind \in {"answer", "reload"} \/ found.searched
    /\ last' = NoResult
    /\ found' = NoFound
    /\ UNCHANGED <<aux, embFile, metaFile, embeddings, meta, cliPending, mode,
                   allow_general_chat, prev>>

Next == Construct \/ Ingest \/ Answer \/ Respond

Spec == Init /\ [][Next]_vars

\* ------------------------------------------------------------- the index builder
\* build_index_cli run as its own process: rebuild, then _persist's np.save
CliSaveEmb ==
    \E docs \in load_documents(Pool, MaxChunks) :
      LET built == rebuild(docs)
      IN /\ ~cliPending.busy
         /\ embFile' = _persist(built.embeddings, built.meta).embFile
         /\ cliPending' = [busy |-> TRUE, docs |-> built.meta]
         /\ UNCHANGED <<aux, metaFile, embeddings, meta, mode, allow_general_chat, prev,
                        last, found>>

\* _persist's json.dump, which ends the builder's run
CliSaveMeta ==
    /\ cliPending.busy
    /\ metaFile' = _persist(<<>>, cliPending.docs).metaFile
    /\ cliPending' = Idle
    /\ UNCHANGED <<aux, embFile, embeddings, meta, mode, allow_general_chat, prev,
                   last, found>>

NextStore == Construct \/ Ingest \/ CliSaveEmb \/ CliSaveMeta

SpecStore == Init /\ [][NextStore]_vars

\* ------------------------------------------------------------- asking over what the builder left
\* _persist's np.save, in a builder run over a data folder of one short note
CliSaveEmbTorn ==
    \E docs \in load_documents(TornPool, MaxTornChunks) :
      LET built == rebuild(docs)
      IN /\ ~cliPending.busy
         /\ embFile' = _persist(built.embeddings, built.meta).embFile
         /\ cliPending' = [busy |-> TRUE, docs |-> built.meta]
         /\ UNCHANGED <<aux, metaFile, embeddings, meta, mode, allow_general_chat, prev,
                        last, found>>

NextTorn == Construct \/ CliSaveEmbTorn \/ CliSaveMeta \/ Answer \/ Respond

SpecTorn == Init /\ [][NextTorn]_vars

\* ------------------------------------------------------------- searching alone
\* POST /ingest, over a larger source directory
IngestSearch ==
    \E docs \in load_documents(SearchPool, MaxSearchChunks) :
      /\ ~InFlight
      /\ embFile' = ingest(mode, docs).embFile
      /\ metaFile' = ingest(mode, docs).metaFile
      /\ embeddings' = ingest(mode, docs).store.embeddings
      /\ meta' = ingest(mode, docs).store.meta
      /\ mode' = ingest(mode, docs).mode
      /\ last' = Blank("reload", mode, 0, <<>>, ingest(mode, docs).mode)
      /\ found' = NoFound
      /\ UNCHANGED <<aux, allow_general_chat, cliPending, prev>>

\* RAGPipeline.retrieve: store.search(query, top_k)
retrieve ==
    \E top_k \in TopKs, qv \in QueryVecs :
      \E order \in Argsorts(Sims(embeddings, qv)) :
        LET r == search(embeddings, meta, qv, top_k, order)
        IN /\ ~found.searched
           /\ found' = [searched |-> TRUE, qv |-> qv, top_k |-> top_k,
                        sims |-> Sims(embeddings, qv), ok |-> r.ok, docs |-> r.docs]
           /\ UNCHANGED <<aux, embFile, metaFile, embeddings, meta, cliPending, mode,
                          allow_general_chat, prev, last>>

NextSearch == IngestSearch \/ retrieve \/ Respond

SpecSearch == Init /\ [][NextSearch]_vars

\* ------------------------------------------------------------- the provider alone
\* the server process starts under another environment: LLMClient()
NewClient ==
    \E groq \in GroqEnv, openai \in OpenAIEnv :
      /\ api_key' = LLMClient_init(groq, openai)
      /\ completed' = NoCall
      /\ UNCHANGED <<embFile, metaFile, embeddings, meta, cliPending, mode,
                     allow_general_chat, prev, last, found, formatted>>

\* llm.complete(prompt), resp being what the remote end does with a request
Complete ==
    \E prompt \in Prompts, resp \in Responses :
      /\ completed' = [called |-> TRUE, prompt |-> prompt, resp |-> resp,
                       out |-> complete(api_key, resp)]
      /\ UNCHANGED <<embFile, metaFile, embeddings, meta, cliPending, mode,
                     allow_general_chat, prev, last, found, api_key, formatted>>

NextLLM == NewClient \/ Complete

SpecLLM == Init /\ [][NextLLM]_vars

\* ------------------------------------------------------------- the context alone
\* context = self._format_context(docs), docs being what retrieve returned
FormatContext ==
    \E docs \in ResultLists :
      /\ formatted' = [done |-> TRUE, docs |-> docs,
                       parts |-> ContextParts(docs, 1, 0, 0),
                       context |-> _format_context(docs)]
      /\ UNCHANGED <<embFile, metaFile, embeddings, meta, cliPending, mode,
                     allow_general_chat, prev, last, found, api_key, completed>>

NextContext == FormatContext

SpecContext == Init /\ [][NextContext]_vars

\* ------------------------------------------------------------- C1
\* C1: in every reachable state of the pipeline's LocalVectorStore the number
\* of embedding rows equals the number of metadata entries.
C1_RowsMatchMeta == Len(embeddings) = Len(meta)

\* ------------------------------------------------------------- C2
\* the index positions in descending score order, equal scores in insertion order
StableDescending(sims) ==
    CHOOSE p \in Perms(Len(sims)) :
        \A i, j \in 1..Len(sims) : i < j =>
            \/ sims[p[i]] > sims[p[j]]
            \/ sims[p[i]] = sims[p[j]] /\ p[i] < p[j]

\* C2 as stated: search returns exactly the first min(top_k, N) chunks of the
\* index in descending score order, equal scores in insertion order.
C2_StableTopK ==
    found.searched /\ found.ok =>
        LET n == Len(meta)
            p == StableDescending(found.sims)
            k == Min(found.top_k, n)
        IN found.docs = [j \in 1..Max(k, 0) |-> WithScore(meta[p[j]], found.sims[p[j]])]

\* C2 amended: for top_k >= 0 search returns min(top_k, N) chunks taken from
\* distinct index positions, each with its own score, in non-increasing score
\* order, and no chunk left out scores higher than a returned one.
C2_TopKByScore ==
    found.searched /\ found.top_k >= 0 =>
        LET n == Len(meta)
            docs == found.docs
        IN /\ found.ok
           /\ Len(docs) = Min(found.top_k, n)
           /\ \A j \in 1..(Len(docs) - 1) : docs[j].score >= docs[j + 1].score
           /\ \E idx \in [1..Len(docs) -> 1..n] :
                /\ \A a, b \in 1..Len(docs) : a # b => idx[a] # idx[b]
                /\ \A j \in 1..Len(docs) :
                     docs[j] = WithScore(meta[idx[j]], Dot(found.qv, embeddings[idx[j]]))
                /\ \A i \in 1..n :
                     (\A j \in 1..Len(docs) : idx[j] # i) =>
                         \A j \in 1..Len(docs) : docs[j].score >= found.sims[i]

\* a search that cut the result to top_k and returned two different chunks of
\* equal score with the one stored later first
C2_Witness ==
    /\ found.searched
    /\ found.top_k = 2
    /\ Len(meta) = 3
    /\ Len(found.docs) = 2
    /\ found.docs[1].score = found.docs[2].score
    /\ found.docs[1] = WithScore(meta[3], found.sims[3])
    /\ found.docs[2] = WithScore(meta[2], found.sims[2])
    /\ meta[2] # meta[3]

\* ------------------------------------------------------------- C3
\* C3 as stated: Mode is auto right after construction and right after reload.
C3_AutoAfterReload ==
    last.kind \in {"construct", "reload"} => mode = "auto"

\* C3 amended: Mode is auto right after construction; reload leaves Mode as it
\* was before the call.
C3_ReloadKeepsMode ==
    /\ last.kind = "construct" => mode = "auto"
    /\ last.kind = "reload" => mode = last.mode0

\* a reload after a switch to chat mode
C3_Witness == last.kind = "reload" /\ last.mode0 = "chat" /\ embeddings # <<>>

\* ------------------------------------------------------------- the requests of the claims
\* the messages of Queries by what they are, read off their text
CommandInputs ==
    {<<"/mode", "docs">>, <<"/MODE", "Docs">>, <<"/mode", "chat">>, <<"/mode", "auto">>}
DocsCommandInputs == {<<"/mode", "docs">>, <<"/MODE", "Docs">>}
SmalltalkInputs == {<<>>, <<"Hello">>}
FilenameInputs == {<<"what", "does", "Report.PDF", "say">>}
CitationInputs == {<<"cite", "the", "steps">>}
OrdinaryInputs == Queries \ (CommandInputs \cup SmalltalkInputs)

Answered == last.kind = "answer"

\* the best retrieved score of the last request is below the threshold
LowBestScore == last.docs = <<>> \/ last.docs[1].score < 12

\* ------------------------------------------------------------- C4
\* C4 as stated: in chat mode a query that is neither a command nor small talk
\* is answered without a search and with an empty source list.
C4_ChatNeverRetrieves ==
    Answered /\ last.mode0 = "chat" /\ last.query \in OrdinaryInputs =>
        last.searches = 0 /\ last.sources = <<>>

\* C4 amended: the same, for a pipeline constructed with general chat allowed.
C4_AllowedChatNeverRetrieves ==
    Answered /\ last.mode0 = "chat" /\ allow_general_chat
             /\ last.query \in OrdinaryInputs =>
        last.searches = 0 /\ last.sources = <<>> /\ last.docs = <<>>

\* forced chat answered a filename query over a non-empty index
C4_Witness ==
    /\ Answered /\ last.mode0 = "chat" /\ allow_general_chat
    /\ last.query \in FilenameInputs
    /\ last.rows0 > 0
    /\ last.branch = "forced_chat"

\* ------------------------------------------------------------- C5
\* C5 as stated: in auto mode over a non-empty index a query without file or
\* page hint whose best score is below the threshold gets no sources.
C5_LowScoreNoSources ==
    Answered /\ last.mode0 = "auto" /\ last.rows0 > 0
             /\ last.query \notin FilenameInputs /\ LowBestScore =>
        last.sources = <<>>

\* C5 amended: the same, for a pipeline with general chat allowed and a query
\* that also has no citation keyword.
C5_GateNoSources ==
    Answered /\ last.mode0 = "auto" /\ last.rows0 > 0 /\ allow_general_chat
             /\ last.query \notin FilenameInputs /\ last.query \notin CitationInputs
             /\ LowBestScore =>
        last.sources = <<>>

\* the ambiguity gate discarded retrieved documents
C5_Witness ==
    /\ Answered /\ last.mode0 = "auto" /\ last.rows0 > 0 /\ allow_general_chat
    /\ last.query = <<"how", "to", "deploy">>
    /\ last.docs # <<>> /\ last.docs[1].score < 12
    /\ last.branch = "ambiguity"
    /\ last.sources = <<>>

\* ------------------------------------------------------------- C6
DocumentGrounded == last.branch \in {"extractive", "grounded"}

\* C6 as stated: over a non-empty index a query with a filename hint is routed
\* to the document-grounded branch, whatever its best score.
C6_FilenameGrounded ==
    Answered /\ last.rows0 > 0 /\ last.query \in FilenameInputs => DocumentGrounded

\* C6 amended: such a query never takes the ambiguity gate, and it is routed to
\* the document-grounded branch whenever forced chat does not apply (Mode is
\* not chat, or general chat is not allowed) and the search returned a chunk.
C6_FilenameNeverGated ==
    Answered /\ last.rows0 > 0 /\ last.query \in FilenameInputs =>
        /\ last.branch # "ambiguity"
        /\ (last.mode0 # "chat" \/ ~allow_general_chat) /\ last.docs # <<>>
              => DocumentGrounded

\* a filename query in auto mode grounded on documents of low score
C6_Witness ==
    /\ Answered /\ last.mode0 = "auto" /\ allow_general_chat
    /\ last.query \in FilenameInputs
    /\ last.docs # <<>> /\ last.docs[1].score < 12
    /\ DocumentGrounded

\* ------------------------------------------------------------- C7
\* C7 as stated: the request answered next after "/mode docs", if the index is
\* empty then, gets the index-is-empty guidance and no sources, in docs mode.
C7_DocsThenEmptyIndex ==
    Answered /\ last.prev0 \in DocsCommandInputs /\ last.rows0 = 0 =>
        /\ last.mode0 = "docs"
        /\ last.answer = <<IndexEmptyMsg>>
        /\ last.sources = <<>>

\* C7 amended: the same, for a next request that is neither a mode-switch
\* command nor empty or small talk.
C7_DocsThenEmptyIndexQuery ==
    Answered /\ last.prev0 \in DocsCommandInputs /\ last.rows0 = 0
             /\ last.query \in OrdinaryInputs =>
        /\ last.mode0 = "docs"
        /\ last.answer = <<IndexEmptyMsg>>
        /\ last.sources = <<>>

\* a query answered over the empty index right after "/mode docs"
C7_Witness ==
    /\ Answered /\ last.prev0 \in DocsCommandInputs /\ last.rows0 = 0
    /\ last.query = <<"how", "to", "deploy">>
    /\ last.branch = "empty_docs"

\* ------------------------------------------------------------- C8
Suffix(t, u) == Len(t) >= Len(u) /\ SubSeq(t, Len(t) - Len(u) + 1, Len(t)) = u

FollowUpCalls == {i \in 1..Len(last.llm) : last.llm[i].prompt = "FOLLOW_UP"}

\* the follow-up text the claim prescribes for a follow-up completion c
FollowUpOf(c) ==
    IF ~c.none /\ StrLen(Strip(c.text)) >= 3 /\ StrLen(Strip(c.text)) <= 180
    THEN Strip(c.text)
    ELSE <<GenericFollowUp>>

\* one follow-up completion was asked for, last, and the answer ends with the
\* follow-up prescribed for what it returned
OneFollowUp ==
    /\ Cardinality(FollowUpCalls) = 1
    /\ Len(last.llm) \in FollowUpCalls
    /\ Suffix(last.answer, <<Sep>> \o FollowUpOf(last.llm[Len(last.llm)].out))

\* C8 as stated: forced chat, the empty-index general-chat fallback, the
\* ambiguity gate and the grounded answer with a non-null completion all end
\* with exactly one follow-up; only the extractive fallback has none.
C8_FollowUpButExtractive ==
    Answered =>
        /\ last.branch \in {"forced_chat", "empty_chat", "ambiguity", "grounded"}
              => OneFollowUp
        /\ last.branch = "extractive" => FollowUpCalls = {}

\* C8 amended: forced chat, the ambiguity gate and the grounded answer with a
\* non-null completion end with exactly one follow-up; the extractive fallback
\* and the empty-index general-chat fallback have none, the latter ending with
\* the fixed invitation to switch modes.
C8_FollowUpWhereAppended ==
    Answered =>
        /\ last.branch \in {"forced_chat", "ambiguity", "grounded"} => OneFollowUp
        /\ last.branch \in {"extractive", "empty_chat"} => FollowUpCalls = {}
        /\ last.branch = "empty_chat" =>
              /\ Len(last.llm) = 1
              /\ Suffix(last.answer, <<Sep, Invite>>)

\* a grounded answer ending with a follow-up of exactly 180 characters after trimming
C8_Witness ==
    /\ Answered /\ last.branch = "grounded"
    /\ last.llm[2].out = Some(<<Seg("ws", 1), Seg("q", 180), Seg("ws", 1)>>)
    /\ Suffix(last.answer, <<Sep, Seg("q", 180)>>)

\* ------------------------------------------------------------- C9
\* text[:800], with the ellipsis marker when text is longer
Cut800(text) ==
    IF StrLen(text) > 800 THEN Prefix(text, 800) \o <<Ellipsis>> ELSE text

\* C9: when the completion of the document-grounded prompt is null, the answer
\* is the first retrieved chunk's text cut to 800 characters (plus the ellipsis
\* when longer), the sources are the whole retrieved list, and no other
\* completion is asked for.
C9_ExtractiveFallback ==
    Answered /\ last.llm # <<>> /\ last.llm[1].prompt = "QA" /\ last.llm[1].out.none =>
        /\ last.docs # <<>>
        /\ last.answer = Cut800(last.docs[1].text)
        /\ last.sources = last.docs
        /\ last.top_k >= 0 => Len(last.sources) = Min(last.top_k, last.rows0)
        /\ Len(last.llm) = 1

\* an extractive answer cut from a chunk of more than 800 characters, with two sources
C9_Witness ==
    /\ Answered /\ last.branch = "extractive"
    /\ StrLen(last.docs[1].text) > 800
    /\ last.answer = <<Seg("t2", 800), Ellipsis>>
    /\ Len(last.sources) = 2

\* ------------------------------------------------------------- C10
\* C10: a small-talk or empty message, in any mode and over any index, is
\* answered without a search, with no sources and never by the extractive
\* fallback; with a null completion the answer is the welcome guidance.
C10_SmalltalkNeverRetrieves ==
    Answered /\ last.query \in SmalltalkInputs =>
        /\ last.searches = 0
        /\ last.sources = <<>>
        /\ last.branch # "extractive"
        /\ StrLen(Strip(last.answer)) > 0
        /\ Suffix(last.answer, <<Welcome>>)
        /\ (last.llm # <<>> /\ last.llm[1].out.none) => last.answer = <<Welcome>>

\* "Hello" in docs mode over a non-empty index, with a null completion
C10_Witness ==
    /\ Answered /\ last.query = <<"Hello">>
    /\ last.mode0 = "docs" /\ last.rows0 > 0
    /\ last.llm[1].out.none
    /\ last.answer = <<Welcome>>

\* ------------------------------------------------------------- C11
WellFormed(body) ==
    /\ body.json
    /\ body.has_choices /\ body.n_choices >= 1
    /\ body.has_message /\ body.has_content

\* the request of the last call failed: no response, a non-success status, or
\* a body that is not the JSON of a completion
RequestFailed ==
    \/ completed.resp.kind \in {"connection_error", "timeout"}
    \/ completed.resp.status < 200 \/ completed.resp.status > 299
    \/ ~WellFormed(completed.resp.body)

\* the same, with only the error statuses (4xx, 5xx) as failing statuses
RequestErrored ==
    \/ completed.resp.kind \in {"connection_error", "timeout"}
    \/ completed.resp.status >= 400
    \/ ~WellFormed(completed.resp.body)

C12_ContextWithinBudget ==
    formatted.done =>
        /\ Len(formatted.parts) <= Len(formatted.docs)
        /\ \A i \in 1..Len(formatted.parts) : formatted.parts[i] = Block(formatted.docs[i])
        /\ Len(formatted.parts) > 1 => StrLen(formatted.context) <= MAX_CONTEXT_CHARS
        /\ Len(formatted.docs) >= 1 =>
              Len(formatted.parts) >= 1 /\ StrLen(formatted.context) > 0

\* ------------------------------------------------------------- C13
\* C13: every request returns normally, with a non-empty answer and with
\* sources that are empty or the whole list its one search returned.
C13_AnswerReturns ==
    Answered =>
        /\ last.branch # "raised"
        /\ StrLen(last.answer) > 0
        /\ last.searches <= 1
        /\ last.sources \in {<<>>, last.docs}

====
